---- MODULE Spec2Model ----
(***************************************************************************)
(* State-machine model of simple_joystick.cpp: the SimpleJoystick object   *)
(* (device handle, shared snapshot, mutex, run flag, event thread), the    *)
(* keyboard listener thread and the consumer loop of main().               *)
(*                                                                         *)
(* C++ indices are 0-based; the sequences of the model are 1-based, so     *)
(* element i of a vector is element i + 1 of the sequence modelling it.    *)
(***************************************************************************)
EXTENDS Integers, Sequences, FiniteSets

\* ------------------------------------------------------------------ bounds

\* Button count of the first device of the environment (DevA).
MaxButtons == 2
\* Axis count of the second device of the environment (DevB).
MaxAxes == 2

\* ------------------------------------------------------- environment inputs

\* SDL reports axis positions as Sint16.
AxisRange == (0 - 32768)..32767
\* Raw axis positions the event thread is fed: full negative deflection
\* (the value the clamp exists for) and rest.
RawSamples == {0 - 32768, 0}
\* The joysticks that can be plugged in: instance id, axis and button count.
DevA == [id |-> 1, axes |-> 1, buttons |-> MaxButtons]
DevB == [id |-> 2, axes |-> MaxAxes, buttons |-> 1]
Devices == {DevA, DevB}
\* Instance ids a SDL_JOYDEVICEREMOVED event can carry; 3 is a device that
\* was never opened.
InstanceIds == {1, 2, 3}
\* Axis indices an event can carry: the first axis, and one that no device
\* has.
AxisIdx == {0, MaxAxes}
\* Button indices an event can carry: one more than any device has.
ButtonIdx == 0..MaxButtons
\* event.state of a SDL_JoyButtonEvent.
SDL_RELEASED == 0
SDL_PRESSED == 1
\* Characters read from the console.
Cmds == {"s", "q", "r", "\n", "x"}
\* joystick_ == nullptr
Null == [id |-> 0, axes |-> 0, buttons |-> 0]

\* ------------------------------------------------------- float arithmetic
\* A binary32 value is [s, m, e]: sign s in {-1, 0, 1}, and for s # 0 a
\* 24 bit mantissa m in 2^23 .. 2^24 - 1 with the value s * m / 2^e.

FZero == [s |-> 0, m |-> 0, e |-> 0]
\* 1.0f
FOne == [s |-> 1, m |-> 8388608, e |-> 23]
\* constexpr float DEADZONE = 0.1f, the binary32 nearest to 0.1
DEADZONE == [s |-> 1, m |-> 13421773, e |-> 27]
\* The divisor 32767.0f
AxisDivisor == 32767

FNeg(x) == [x EXCEPT !.s = 0 - x.s]
FAbs(x) == [x EXCEPT !.s = IF x.s = 0 THEN 0 ELSE 1]
\* x < y for x, y >= 0
FMagLess(x, y) ==
    IF y.s = 0 THEN FALSE
    ELSE IF x.s = 0 THEN TRUE
    ELSE IF x.e # y.e THEN x.e > y.e
    ELSE x.m < y.m
\* x < y
FLess(x, y) ==
    IF x.s < 0 /\ y.s < 0 THEN FMagLess(FAbs(y), FAbs(x))
    ELSE IF x.s < 0 THEN TRUE
    ELSE IF y.s < 0 THEN FALSE
    ELSE FMagLess(x, y)

Abs(n) == IF n < 0 THEN 0 - n ELSE n

\* The number of doublings that bring n (0 < n) up to at least AxisDivisor.
RECURSIVE NormShift(_)
NormShift(n) == IF n >= AxisDivisor THEN 0 ELSE 1 + NormShift(2 * n)

\* Long division: `bits` further quotient bits of rem / AxisDivisor after the
\* quotient q; the result is the quotient and the last remainder.
RECURSIVE DivBits(_, _, _)
DivBits(q, rem, bits) ==
    IF bits = 0 THEN [q |-> q, rem |-> rem]
    ELSE IF 2 * rem >= AxisDivisor
         THEN DivBits(2 * q + 1, 2 * rem - AxisDivisor, bits - 1)
         ELSE DivBits(2 * q, 2 * rem, bits - 1)

\* static_cast<float>(raw) / 32767.0f: both operands are exact in binary32
\* and the quotient is rounded to nearest (AxisDivisor is odd: no ties).
FDivAxis(raw) ==
    IF raw = 0 THEN FZero
    ELSE LET mag == Abs(raw)
             sh == NormShift(mag)
             top == mag * (2 ^ sh)
             d == DivBits(1, top - AxisDivisor, 23)
             up == 2 * d.rem > AxisDivisor
             m == IF up THEN d.q + 1 ELSE d.q
             sg == IF raw < 0 THEN 0 - 1 ELSE 1
         IN  IF m = 16777216
             THEN [s |-> sg, m |-> 8388608, e |-> 22 + sh]
             ELSE [s |-> sg, m |-> m, e |-> 23 + sh]

\* Mutant of Clamp: the two range tests left out.
ClampOff(value) == value

\* if (value > 1.0f) value = 1.0f; if (value < -1.0f) value = -1.0f;
Clamp(value) ==
    LET hi == IF FLess(FOne, value) THEN FOne ELSE value
    IN  IF FLess(hi, FNeg(FOne)) THEN FNeg(FOne) ELSE hi

\* if (fabs(value) < DEADZONE) value = 0.0f;
ApplyDeadzone(value) ==
    IF FLess(FAbs(value), DEADZONE) THEN FZero ELSE value

\* The value handleAxisEvent computes from event.value = raw.
normalizeAxis(raw) == ApplyDeadzone(Clamp(FDivAxis(raw)))

\* normalizeAxis on the sampled raw values, computed once.
SampleValues == [raw \in RawSamples |-> normalizeAxis(raw)]

\* The value handleAxisEvent stores for event.value = raw.
AxisValue(raw) ==
    IF raw \in RawSamples THEN SampleValues[raw] ELSE normalizeAxis(raw)

\* ------------------------------------------------------------------ state

VARIABLES
    sdl_init,           \* SDL subsystem: "pending", "ok", "failed", "quit"
    sdl_open,           \* instance ids of the device handles SDL has open
    joystick_,          \* SimpleJoystick::joystick_ (Null: nullptr)
    current_data_,      \* SimpleJoystick::current_data_
    data_mutex_,        \* SimpleJoystick::data_mutex_: "free" or its holder
    running_,           \* SimpleJoystick::running_
    event_thread_,      \* position of eventLoop: "off", "check", "drain",
                        \* "opened" (a device opened, initJoystick not yet
                        \* holding the lock), "init" (inside initJoystick,
                        \* between its two resizes), "done"
    program_running,    \* main's program_running
    kb_thread,          \* position of keyboardListener: "off", "loop",
                        \* "quit" (between the two writes of 'q'), "done"
    restart_refused,    \* keyboardListener has answered an 's' read while
                        \* stopped with "cannot restart"
    main_pc,            \* position of main
    exit_code,          \* "none" while the process lives, then "0", "1" or
                        \* "SIGSEGV"
    data_size,          \* axes.size() and buttons.size() of main's data, the
                        \* last getData() result (data dies with each tick)
    last_button_state,  \* main's static last_button_state
    last_init,          \* whether that static has been initialised
    emitted,            \* the command ids the consumer tick just made sent
    data,               \* main's data (the getData() copy) while it lives:
                        \* from getData() to the end of the if block
    last_tick,          \* what the consumer's pass just did: "none", "idle"
                        \* (isRunning() false), "first" (the pass that
                        \* initialises the static), "next", "fault"
    axis_raw,           \* per stored axis, the raw value it was computed from
    discarded,          \* how the event thread discarded the last event of
                        \* its current drain: "none" (it did not), "axis" /
                        \* "button" (index out of range), "detach" (the
                        \* instance id is not the open device's), "attach"
                        \* (a device is open already)
    unanswered,         \* button indices of the command table whose stored
                        \* state went false -> true with no command sent for
                        \* the index since
    track_presses       \* whether unanswered is kept (a history variable
                        \* only FairSpec needs); never changes

vars == <<sdl_init, sdl_open, joystick_, current_data_, data_mutex_, running_,
          event_thread_, program_running, kb_thread, restart_refused, main_pc,
          exit_code, data_size, last_button_state, last_init, emitted, data,
          last_tick, axis_raw, discarded, unanswered, track_presses>>

sdl_vars == <<sdl_init, sdl_open>>
joy_vars == <<joystick_, current_data_, data_mutex_, axis_raw, discarded>>
main_vars == <<main_pc, exit_code, data_size, last_button_state, last_init, emitted,
               data, last_tick, unanswered>>
kb_vars == <<program_running, kb_thread, restart_refused>>

JoystickData == [axes |-> <<>>, buttons |-> <<>>]

\* The process has neither returned from main nor been killed.
Alive == exit_code = "none"

\* main is in its while (program_running) loop with nothing stopped.
ConsumerRunning ==
    /\ Alive /\ running_ /\ program_running
    /\ main_pc \in {"loop", "tick", "read", "edges"}

\* ------------------------------------------------------------- the store

\* Mutant of Resize: the vector only grows.
ResizeGrow(seq, n, v) ==
    IF n <= Len(seq) THEN seq
    ELSE seq \o [k \in 1..(n - Len(seq)) |-> v]

\* std::vector::resize(n, v): keeps the first n elements, appends copies of v.
Resize(seq, n, v) ==
    IF n <= Len(seq) THEN SubSeq(seq, 1, n)
    ELSE seq \o [k \in 1..(n - Len(seq)) |-> v]

\* Mutant of CanLock: the lock is not honoured.
CanLockAlways(m) == TRUE

\* std::lock_guard on data_mutex_ can be taken.
CanLock(m) == m = "free"

\* Mutant of getData: the axes of the copy are those of a fresh store.
getDataStale(d) ==
    [axes |-> [k \in 1..Len(d.axes) |-> FZero], buttons |-> d.buttons]

\* getData(): the copy of current_data_ made under the lock.
getData(d) == [axes |-> d.axes, buttons |-> d.buttons]

\* initJoystick() as run by the constructor, before any thread exists.
initJoystick(d, dev) ==
    [axes |-> Resize(d.axes, dev.axes, FZero),
     buttons |-> Resize(d.buttons, dev.buttons, FALSE)]

\* ------------------------------------------------------------ SimpleJoystick

\* SimpleJoystick::SimpleJoystick as called by main: SDL_Init fails and the
\* exception reaches main's handler (return 1), or the first joystick is
\* opened if there is one and it opens (dev # Null) and the event thread
\* is started.
SimpleJoystick(ok, dev) ==
    /\ Alive /\ main_pc = "start"
    /\ IF ~ok
       THEN /\ sdl_init' = "failed"
            /\ exit_code' = "1"
            /\ main_pc' = "exited"
            /\ UNCHANGED <<sdl_open, joystick_, current_data_, data_mutex_,
                           axis_raw, running_, event_thread_>>
       ELSE /\ sdl_init' = "ok"
            /\ joystick_' = dev
            /\ sdl_open' = IF dev = Null THEN {} ELSE {dev.id}
            /\ current_data_' = IF dev = Null THEN current_data_
                                ELSE initJoystick(current_data_, dev)
            /\ axis_raw' = IF dev = Null THEN axis_raw
                           ELSE Resize(axis_raw, dev.axes, 0)
            /\ running_' = TRUE
            /\ event_thread_' = "check"
            /\ main_pc' = "kb_start"
            /\ UNCHANGED <<data_mutex_, exit_code>>
    /\ UNCHANGED <<kb_vars, data_size, last_button_state, last_init, emitted, data, last_tick,
                   discarded, unanswered>>
    /\ UNCHANGED track_presses

\* while (running_)
eventLoop ==
    /\ Alive /\ event_thread_ = "check"
    /\ event_thread_' = IF running_ THEN "drain" ELSE "done"
    /\ UNCHANGED <<sdl_vars, joy_vars, running_, kb_vars, main_vars>>
    /\ UNCHANGED track_presses

\* SDL_PollEvent returns 0: the drain ends and the thread sleeps.
eventLoopSleep ==
    /\ Alive /\ event_thread_ = "drain"
    /\ event_thread_' = "check"
    /\ discarded' = "none"
    /\ UNCHANGED <<sdl_vars, joystick_, current_data_, data_mutex_, axis_raw,
                   running_, kb_vars, main_vars>>
    /\ UNCHANGED track_presses

\* Mutant of commandId: button i sends command i + 1.
commandIdInOrder(i) == IF i < 4 THEN i + 1 ELSE 0

\* The index -> command id table of the consumer; 0: no command.
commandId(i) ==
    IF i = 0 THEN 3
    ELSE IF i = 1 THEN 1
    ELSE IF i = 2 THEN 2
    ELSE IF i = 3 THEN 4
    ELSE 0

\* event.axis < current_data_.axes.size(), event.button < ...buttons.size()
InRange(index, size) == index < size

\* Mutant of WriteAt: the element after the indexed one is written.
WriteNext(v, index, value) == [v EXCEPT ![index + 2] = value]

\* v[index] = value
WriteAt(v, index, value) == [v EXCEPT ![index + 1] = value]

\* case SDL_JOYAXISMOTION: handleAxisEvent
handleAxisEvent(axis, raw) ==
    /\ Alive /\ event_thread_ = "drain"
    /\ IF joystick_ = Null
       THEN /\ discarded' = "none"
            /\ UNCHANGED <<current_data_, axis_raw>>
       ELSE /\ CanLock(data_mutex_)
            /\ IF InRange(axis, Len(current_data_.axes))
               THEN /\ current_data_' =
                         [current_data_ EXCEPT
                            !.axes = WriteAt(@, axis, AxisValue(raw))]
                    /\ axis_raw' = WriteAt(axis_raw, axis, raw)
                    /\ discarded' = "none"
               ELSE /\ discarded' = "axis"
                    /\ UNCHANGED <<current_data_, axis_raw>>
    /\ UNCHANGED <<sdl_vars, joystick_, data_mutex_, running_, event_thread_,
                   kb_vars, main_vars>>
    /\ UNCHANGED track_presses

\* case SDL_JOYBUTTONDOWN / SDL_JOYBUTTONUP: handleButtonEvent
handleButtonEvent(button, state) ==
    /\ Alive /\ event_thread_ = "drain"
    /\ IF joystick_ = Null
       THEN /\ discarded' = "none"
            /\ UNCHANGED <<current_data_, unanswered>>
       ELSE /\ CanLock(data_mutex_)
            /\ IF InRange(button, Len(current_data_.buttons))
               THEN /\ current_data_' =
                         [current_data_ EXCEPT
                            !.buttons = WriteAt(@, button, state = SDL_PRESSED)]
                    /\ discarded' = "none"
                    /\ unanswered' =
                         IF /\ ~current_data_.buttons[button + 1]
                            /\ state = SDL_PRESSED
                            /\ commandId(button) # 0
                            /\ ConsumerRunning /\ track_presses
                         THEN unanswered \cup {button}
                         ELSE unanswered
               ELSE /\ discarded' = "button"
                    /\ UNCHANGED <<current_data_, unanswered>>
    /\ UNCHANGED <<sdl_vars, joystick_, data_mutex_, axis_raw, running_,
                   event_thread_, kb_vars, main_pc, exit_code, data_size,
                   last_button_state, last_init, emitted, data, last_tick>>
    /\ UNCHANGED track_presses

\* Mutant of CanOpen: a device is opened whether or not one is open.
CanOpenAlways(joy, ok) == ok

\* Mutant of CanOpen: the result of SDL_JoystickOpen is tested the wrong way
\* round.
CanOpenFailed(joy, ok) == joy = Null /\ ~ok

\* if (!joystick_) { joystick_ = SDL_JoystickOpen(...); if (joystick_) ...
CanOpen(joy, ok) == joy = Null /\ ok

\* case SDL_JOYDEVICEADDED: open the device unless one is open (ok: whether
\* SDL_JoystickOpen succeeds) and call initJoystick.
deviceAdded(dev, ok) ==
    /\ Alive /\ event_thread_ = "drain"
    /\ IF CanOpen(joystick_, ok)
       THEN /\ joystick_' = dev
            /\ sdl_open' = sdl_open \cup {dev.id}
            /\ event_thread_' = "opened"
            /\ discarded' = "none"
            /\ UNCHANGED <<current_data_, data_mutex_, axis_raw>>
       ELSE /\ discarded' = IF joystick_ # Null THEN "attach" ELSE "none"
            /\ UNCHANGED <<sdl_open, joystick_, current_data_, data_mutex_,
                           axis_raw, event_thread_>>
    /\ UNCHANGED <<sdl_init, running_, kb_vars, main_vars>>
    /\ UNCHANGED track_presses

\* initJoystick as called by the event thread: read the counts, take the
\* lock, resize the axes.
initJoystickAxes ==
    /\ Alive /\ event_thread_ = "opened"
    /\ CanLock(data_mutex_)
    /\ data_mutex_' = "event_thread"
    /\ current_data_' =
         [current_data_ EXCEPT !.axes = Resize(@, joystick_.axes, FZero)]
    /\ axis_raw' = Resize(axis_raw, joystick_.axes, 0)
    /\ event_thread_' = "init"
    /\ UNCHANGED <<sdl_vars, joystick_, discarded, running_, kb_vars, main_vars>>
    /\ UNCHANGED track_presses

\* The rest of initJoystick: resize the buttons, release the lock.
initJoystickButtons ==
    /\ Alive /\ event_thread_ = "init"
    /\ current_data_' =
         [current_data_ EXCEPT !.buttons = Resize(@, joystick_.buttons, FALSE)]
    /\ data_mutex_' = "free"
    /\ event_thread_' = "drain"
    /\ UNCHANGED <<sdl_vars, joystick_, axis_raw, discarded, running_, kb_vars,
                   main_vars>>
    /\ UNCHANGED track_presses

\* Mutant of DetachMatches: the instance id is not compared.
DetachAny(joy, which) == joy # Null

\* The test of case SDL_JOYDEVICEREMOVED.
DetachMatches(joy, which) == joy # Null /\ which = joy.id

\* case SDL_JOYDEVICEREMOVED
deviceRemoved(which) ==
    /\ Alive /\ event_thread_ = "drain"
    /\ IF DetachMatches(joystick_, which)
       THEN /\ sdl_open' = sdl_open \ {joystick_.id}
            /\ joystick_' = Null
            /\ discarded' = "none"
       ELSE /\ discarded' = IF joystick_ # Null THEN "detach" ELSE "none"
            /\ UNCHANGED <<sdl_open, joystick_>>
    /\ UNCHANGED <<sdl_init, current_data_, data_mutex_, axis_raw, running_,
                   event_thread_, kb_vars, main_vars>>
    /\ UNCHANGED track_presses

\* ---------------------------------------------------------- keyboardListener

\* Mutant of PauseToggle: 's' on a stopped joystick sets it running again.
PauseResume(r) == ~r

\* What case 's' leaves in running_: stop() if running, else nothing.
PauseToggle(r) == IF r THEN FALSE ELSE r

\* One iteration of the listener's loop that reads the character cmd.
keyboardListener(cmd) ==
    /\ Alive /\ kb_thread = "loop" /\ program_running
    /\ restart_refused' = (restart_refused \/ (cmd = "s" /\ ~running_))
    /\ IF cmd = "s"
       THEN /\ running_' = PauseToggle(running_)
            /\ UNCHANGED <<program_running, kb_thread>>
       ELSE IF cmd = "q"
       THEN /\ program_running' = FALSE
            /\ kb_thread' = "quit"
            /\ UNCHANGED running_
       ELSE UNCHANGED <<running_, program_running, kb_thread>>
    /\ UNCHANGED <<sdl_vars, joy_vars, event_thread_, main_vars>>
    /\ UNCHANGED track_presses

\* case 'q', second write: joystick.stop()
keyboardQuitStop ==
    /\ Alive /\ kb_thread = "quit"
    /\ running_' = FALSE
    /\ kb_thread' = "loop"
    /\ UNCHANGED <<sdl_vars, joy_vars, event_thread_, program_running, restart_refused,
                   main_vars>>
    /\ UNCHANGED track_presses

\* while (running) fails: the listener returns.
keyboardListenerExit ==
    /\ Alive /\ kb_thread = "loop" /\ ~program_running
    /\ kb_thread' = "done"
    /\ UNCHANGED <<sdl_vars, joy_vars, running_, event_thread_, program_running,
                   restart_refused, main_vars>>
    /\ UNCHANGED track_presses

\* ---------------------------------------------------------------------- main

\* std::thread kb_thread(keyboardListener, ...)
mainStartKeyboard ==
    /\ Alive /\ main_pc = "kb_start"
    /\ kb_thread' = "loop"
    /\ main_pc' = "loop"
    /\ UNCHANGED <<sdl_vars, joy_vars, running_, event_thread_, program_running,
                   restart_refused, exit_code, data_size, last_button_state, last_init, emitted, data, last_tick,
                   unanswered>>
    /\ UNCHANGED track_presses

\* while (program_running)
mainLoop ==
    /\ Alive /\ main_pc = "loop"
    /\ main_pc' = IF program_running THEN "tick" ELSE "join"
    /\ emitted' = <<>>
    /\ data' = JoystickData
    /\ last_tick' = "none"
    /\ UNCHANGED <<sdl_vars, joy_vars, running_, event_thread_, kb_vars,
                   exit_code, data_size, last_button_state, last_init,
                   unanswered>>
    /\ UNCHANGED track_presses

\* Mutant of Running: the consumer takes the joystick as always running.
RunningAlways(r) == TRUE

\* What isRunning() returns: running_.
Running(r) == r

\* if (joystick.isRunning()); when not, the tick only sleeps.
isRunning ==
    /\ Alive /\ main_pc = "tick"
    /\ main_pc' = IF Running(running_) THEN "read" ELSE "loop"
    /\ last_tick' = IF Running(running_) THEN last_tick ELSE "idle"
    /\ UNCHANGED <<sdl_vars, joy_vars, running_, event_thread_, kb_vars,
                   exit_code, data_size, last_button_state, last_init, emitted,
                   data, unanswered>>
    /\ UNCHANGED track_presses

\* Mutant of IsPressEdge: level-triggered, the previous state is not tested.
IsPressed(cur, prev) == cur

\* data.buttons[i] && !last_button_state[i], on the values read.
IsPressEdge(cur, prev) == cur /\ ~prev

\* The indices at which the loop reads last_button_state past its end.
OobReads(buttons, last) ==
    {i \in 0..(Len(buttons) - 1) : buttons[i + 1] /\ i >= Len(last)}

\* What a read of last_button_state past its end can do.
OobOutcomes == {"0", "1", "fault"}

\* The value read for last_button_state[i]; ub gives the reads past the end.
PrevRead(last, i, ub) == IF i < Len(last) THEN last[i + 1] ELSE ub[i] = "1"

\* for (int i = 0; i < data.buttons.size(); i++): the button indices a
\* command is sent for from index i on, after those of out, and whether a
\* read faulted.
RECURSIVE ButtonLoop(_, _, _, _, _)
ButtonLoop(i, buttons, last, ub, out) ==
    IF i >= Len(buttons) THEN [cmds |-> out, fault |-> FALSE]
    ELSE IF ~buttons[i + 1] THEN ButtonLoop(i + 1, buttons, last, ub, out)
    ELSE IF i >= Len(last) /\ ub[i] = "fault" THEN [cmds |-> out, fault |-> TRUE]
    ELSE IF IsPressEdge(buttons[i + 1], PrevRead(last, i, ub)) /\ commandId(i) # 0
         THEN ButtonLoop(i + 1, buttons, last, ub, Append(out, i))
         ELSE ButtonLoop(i + 1, buttons, last, ub, out)

\* Mutant of StaticInit: the static starts with no button pressed.
StaticInitReleased(init, last, buttons) ==
    IF init THEN last ELSE [k \in 1..Len(buttons) |-> FALSE]

\* static std::vector<bool> last_button_state = data.buttons: the value of
\* the static in this pass, initialised by the first pass only.
StaticInit(init, last, buttons) == IF init THEN last ELSE buttons

\* Mutant of UpdatePrevious: the static is left as it was.
KeepPrevious(last, buttons) == last

\* last_button_state = data.buttons
UpdatePrevious(last, buttons) == buttons

\* auto data = joystick.getData(): the copy is made under the lock, which
\* is free again when getData returns.
mainGetData ==
    /\ Alive /\ main_pc = "read"
    /\ CanLock(data_mutex_)
    /\ data' = getData(current_data_)
    /\ data_size' = [axes |-> Len(data'.axes), buttons |-> Len(data'.buttons)]
    /\ main_pc' = "edges"
    /\ UNCHANGED <<sdl_vars, joy_vars, running_, event_thread_, kb_vars,
                   exit_code, last_button_state, last_init, emitted, last_tick,
                   unanswered>>
    /\ UNCHANGED track_presses

\* The rest of the body of if (joystick.isRunning()), on the copy: render,
\* the static's initialisation on the first pass, the edge loop, the update
\* of the static; data dies at the end of the block.
mainTick ==
    /\ Alive /\ main_pc = "edges"
    /\ LET d == data
           last == StaticInit(last_init, last_button_state, d.buttons)
       IN  \E ub \in [OobReads(d.buttons, last) -> OobOutcomes] :
             LET r == ButtonLoop(0, d.buttons, last, ub, <<>>)
             IN  /\ data' = IF r.fault THEN data ELSE JoystickData
                 /\ last_init' = TRUE
                 /\ last_tick' = IF r.fault THEN "fault"
                                 ELSE IF last_init THEN "next" ELSE "first"
                 /\ emitted' = [k \in 1..Len(r.cmds) |-> commandId(r.cmds[k])]
                 /\ unanswered' =
                      unanswered \ {r.cmds[k] : k \in 1..Len(r.cmds)}
                 /\ IF r.fault
                    THEN /\ last_button_state' = last
                         /\ exit_code' = "SIGSEGV"
                         /\ main_pc' = "killed"
                    ELSE /\ last_button_state' = UpdatePrevious(last, d.buttons)
                         /\ exit_code' = exit_code
                         /\ main_pc' = "loop"
    /\ UNCHANGED <<sdl_vars, joy_vars, running_, event_thread_, kb_vars,
                   data_size>>
    /\ UNCHANGED track_presses

\* kb_thread.join()
mainJoinKeyboard ==
    /\ Alive /\ main_pc = "join" /\ kb_thread = "done"
    /\ main_pc' = "dtor"
    /\ UNCHANGED <<sdl_vars, joy_vars, running_, event_thread_, kb_vars,
                   exit_code, data_size, last_button_state, last_init, emitted, data, last_tick,
                   unanswered>>
    /\ UNCHANGED track_presses

\* ~SimpleJoystick: running_ = false
destructorStop ==
    /\ Alive /\ main_pc = "dtor"
    /\ running_' = FALSE
    /\ main_pc' = "dtor_join"
    /\ UNCHANGED <<sdl_vars, joy_vars, event_thread_, kb_vars,
                   exit_code, data_size, last_button_state, last_init, emitted, data, last_tick,
                   unanswered>>
    /\ UNCHANGED track_presses

\* ~SimpleJoystick: event_thread_.join(), SDL_JoystickClose, SDL_Quit; return 0
destructorJoin ==
    /\ Alive /\ main_pc = "dtor_join" /\ event_thread_ = "done"
    /\ sdl_open' = IF joystick_ # Null THEN sdl_open \ {joystick_.id} ELSE sdl_open
    /\ sdl_init' = "quit"
    /\ exit_code' = "0"
    /\ main_pc' = "exited"
    /\ UNCHANGED <<joy_vars, running_, event_thread_, kb_vars,
                   data_size, last_button_state, last_init, emitted, data, last_tick, unanswered>>
    /\ UNCHANGED track_presses

\* ------------------------------------------------------------ specification

Start ==
    /\ sdl_init = "pending"
    /\ sdl_open = {}
    /\ joystick_ = Null
    /\ current_data_ = JoystickData
    /\ data_mutex_ = "free"
    /\ running_ = FALSE
    /\ event_thread_ = "off"
    /\ program_running = TRUE
    /\ kb_thread = "off"
    /\ restart_refused = FALSE
    /\ main_pc = "start"
    /\ exit_code = "none"
    /\ data_size = [axes |-> 0, buttons |-> 0]
    /\ last_button_state = <<>>
    /\ last_init = FALSE
    /\ emitted = <<>>
    /\ data = JoystickData
    /\ last_tick = "none"
    /\ axis_raw = <<>>
    /\ discarded = "none"
    /\ unanswered = {}

\* The state before main runs.
Init == Start /\ track_presses = FALSE

Next ==
    \/ \E ok \in BOOLEAN, dev \in Devices \cup {Null} : SimpleJoystick(ok, dev)
    \/ eventLoop
    \/ eventLoopSleep
    \/ \E axis \in AxisIdx, raw \in RawSamples : handleAxisEvent(axis, raw)
    \/ \E button \in ButtonIdx, state \in {SDL_RELEASED, SDL_PRESSED} :
          handleButtonEvent(button, state)
    \/ \E dev \in Devices, ok \in BOOLEAN : deviceAdded(dev, ok)
    \/ initJoystickAxes
    \/ initJoystickButtons
    \/ \E which \in InstanceIds : deviceRemoved(which)
    \/ \E cmd \in Cmds : keyboardListener(cmd)
    \/ keyboardQuitStop
    \/ keyboardListenerExit
    \/ mainStartKeyboard
    \/ mainLoop
    \/ isRunning
    \/ mainGetData
    \/ mainTick
    \/ mainJoinKeyboard
    \/ destructorStop
    \/ destructorJoin

Spec == Init /\ [][Next]_vars

\* The scheduler runs every thread that can take a step; the environment
\* (device events, console input) is not obliged to produce anything, and
\* every drain of the event queue ends.
Fairness ==
    /\ WF_vars(eventLoop)
    /\ WF_vars(eventLoopSleep)
    /\ WF_vars(initJoystickAxes)
    /\ WF_vars(initJoystickButtons)
    /\ WF_vars(keyboardQuitStop)
    /\ WF_vars(keyboardListenerExit)
    /\ WF_vars(mainStartKeyboard)
    /\ WF_vars(mainLoop)
    /\ WF_vars(isRunning)
    /\ WF_vars(mainGetData)
    /\ WF_vars(mainTick)
    /\ WF_vars(mainJoinKeyboard)
    /\ WF_vars(destructorStop)
    /\ WF_vars(destructorJoin)

\* Spec with the presses and the commands that answer them recorded, and
\* with the scheduling stated.
FairInit == Start /\ track_presses = TRUE

FairSpec == FairInit /\ [][Next]_vars /\ Fairness

\* The state after construction with DevA open, the listener started and
\* the event thread draining its queue.
NormInit ==
    /\ sdl_init = "ok"
    /\ sdl_open = {DevA.id}
    /\ joystick_ = DevA
    /\ current_data_ = initJoystick(JoystickData, DevA)
    /\ data_mutex_ = "free"
    /\ running_ = TRUE
    /\ event_thread_ = "drain"
    /\ program_running = TRUE
    /\ kb_thread = "loop"
    /\ restart_refused = FALSE
    /\ main_pc = "loop"
    /\ exit_code = "none"
    /\ data_size = [axes |-> 0, buttons |-> 0]
    /\ last_button_state = <<>>
    /\ last_init = FALSE
    /\ emitted = <<>>
    /\ data = JoystickData
    /\ last_tick = "none"
    /\ axis_raw = Resize(<<>>, DevA.axes, 0)
    /\ discarded = "none"
    /\ unanswered = {}
    /\ track_presses = FALSE

\* The first axis event of the device, with any raw value SDL can report.
NormNext ==
    /\ \A k \in 1..Len(axis_raw) : axis_raw[k] = 0
    /\ \E raw \in AxisRange : handleAxisEvent(0, raw)

\* handleAxisEvent over the whole Sint16 range.
NormSpec == NormInit /\ [][NormNext]_vars

\* The number of buttons of the device of MapSpec: one more than the
\* command table has entries.
TableButtons == 5

\* A device with more buttons than the command table has entries.
DevC == [id |-> 3, axes |-> 1, buttons |-> TableButtons]

\* The consumer about to run the body of a later pass, DevC open: any stored
\* buttons, any remembered buttons of the pass before.
MapInit ==
    /\ sdl_init = "ok"
    /\ sdl_open = {DevC.id}
    /\ joystick_ = DevC
    /\ current_data_ \in [axes : {Resize(<<>>, DevC.axes, FZero)},
                          buttons : [1..TableButtons -> BOOLEAN]]
    /\ data_mutex_ = "free"
    /\ running_ = TRUE
    /\ event_thread_ = "check"
    /\ program_running = TRUE
    /\ kb_thread = "loop"
    /\ restart_refused = FALSE
    /\ main_pc = "read"
    /\ exit_code = "none"
    /\ data_size = [axes |-> DevC.axes, buttons |-> DevC.buttons]
    /\ last_button_state \in [1..TableButtons -> BOOLEAN]
    /\ last_init = TRUE
    /\ emitted = <<>>
    /\ data = JoystickData
    /\ last_tick = "none"
    /\ axis_raw = Resize(<<>>, DevC.axes, 0)
    /\ discarded = "none"
    /\ unanswered = {}
    /\ track_presses = FALSE

\* One pass of the consumer over the buttons.
MapNext == mainGetData \/ mainTick

\* The edge loop and its command table over every pair of button vectors.
MapSpec == MapInit /\ [][MapNext]_vars

\* ------------------------------------------------------------------ claims

\* The snapshot initJoystick is meant to leave for device dev.
Defaults(dev) ==
    [axes |-> [k \in 1..dev.axes |-> FZero],
     buttons |-> [k \in 1..dev.buttons |-> FALSE]]

\* A step that completes the opening of a device (constructor or hot-plug).
OpenCompletes ==
    \/ main_pc = "start" /\ joystick_' # Null
    \/ event_thread_ = "init" /\ event_thread_' = "drain"

\* A step that applies an axis or button event.
EventApplied ==
    \/ \E axis \in AxisIdx, raw \in RawSamples : handleAxisEvent(axis, raw)
    \/ \E button \in ButtonIdx, state \in {SDL_RELEASED, SDL_PRESSED} :
          handleButtonEvent(button, state)

\* C1: after every successful device open the stored snapshot has the
\* device's axis count of 0.0 and button count of false, and keeps them
\* until an axis or button event is applied.
C1_OpenGivesDefaults ==
    [][/\ OpenCompletes => current_data_' = Defaults(joystick_')
       /\ (/\ joystick_ # Null /\ joystick_' = joystick_
           /\ event_thread_ # "init"
           /\ current_data_ = Defaults(joystick_)
           /\ ~EventApplied)
          => current_data_' = Defaults(joystick_)]_vars

\* C2: while the event thread and the consumer are running and a device is
\* attached, every false -> true change of a stored button at an index of
\* the command table is followed by a command for that index.
C2_NoPressLost ==
    \A i \in 0..3 :
        [](i \in unanswered =>
             <>(i \notin unanswered \/ ~running_ \/ ~program_running
                \/ joystick_ = Null \/ exit_code # "none"))

\* The set of command ids in a sequence of sent commands.
Sent(cmds) == {cmds[k] : k \in 1..Len(cmds)}

\* The step in which the consumer takes its snapshot.
ConsumerRead == main_pc = "read" /\ main_pc' # "read"

\* The step in which the consumer, holding its snapshot, runs the rest of
\* the if (isRunning()) body.
ConsumerTick == main_pc = "edges" /\ main_pc' # "edges"

\* The previous button state the tick compares with: the static, which the
\* first pass initialises to the snapshot.
PreviousButtons ==
    IF last_init THEN last_button_state ELSE data.buttons

\* C3: a consumer tick sends a command for button index i only if the
\* snapshot has buttons[i] true and the previous state at i is not true, and
\* at most once per tick; so a held button and a release send nothing.
C3_EdgeTriggered ==
    [][ConsumerTick =>
         /\ \A i \in 0..3 :
              commandId(i) \in Sent(emitted') =>
                 /\ i < Len(data.buttons)
                 /\ data.buttons[i + 1]
                 /\ i < Len(PreviousButtons) => ~PreviousButtons[i + 1]
         /\ Cardinality(Sent(emitted')) = Len(emitted')]_vars

\* A tick has just sent the command of button 0, which is now the previous
\* state.
C3_Witness ==
    /\ main_pc = "loop" /\ emitted = <<3>>
    /\ last_button_state # <<>> /\ last_button_state[1]

\* C4: the axes and buttons lengths of every getData() result are those of
\* one device (or of the empty store), never of two.
C4_NoTornRead ==
    \E dev \in Devices \cup {Null} :
        /\ data_size.axes = dev.axes
        /\ data_size.buttons = dev.buttons

\* The consumer, holding a snapshot of an earlier open, waits to read while
\* initJoystick is between its two resizes.
C4_Witness ==
    /\ main_pc = "read" /\ event_thread_ = "init"
    /\ data_size.axes # joystick_.axes /\ data_size.axes # 0

\* C5: once 'q' has been processed, the process ends only with exit code 0
\* and only after both background threads have finished.
C5_ShutdownExitsZero ==
    (~program_running /\ exit_code # "none") =>
        /\ exit_code = "0"
        /\ event_thread_ = "done"
        /\ kb_thread = "done"

\* C6: a device-detached event with another instance id than the open
\* device's leaves the handle, the device presence and the snapshot as
\* they are.
C6_ForeignDetachIgnored ==
    [][(event_thread_ = "drain" /\ joystick_ # Null) =>
         \A which \in InstanceIds :
            (which # joystick_.id /\ deviceRemoved(which))
               => UNCHANGED <<joystick_, sdl_open, current_data_>>]_vars

\* The event thread has just ignored a foreign detach; the device is open.
C6_Witness ==
    /\ discarded = "detach"
    /\ joystick_ # Null /\ joystick_.id \in sdl_open

\* C7: when SDL_Init fails no thread is started and the process exits with
\* code 1; every other run that ends, ends with exit code 0.
C7_ExitCodes ==
    /\ sdl_init = "failed" =>
          /\ event_thread_ = "off" /\ kb_thread = "off"
          /\ exit_code = "1"
    /\ (sdl_init # "failed" /\ exit_code # "none") => exit_code = "0"

\* |x| <= 1 and |x| >= 0.1 for a binary32 x # 0, in exact arithmetic.
AtMostOne(x) == x.e <= 27 => x.m <= 2 ^ x.e
AtLeastTenth(x) == x.e <= 27 /\ 10 * x.m >= 2 ^ x.e

\* C8: every stored axis value lies in [-1.0, 1.0], raw -32768 gives exactly
\* -1.0, a raw value with |raw / 32767| < 0.1 gives exactly 0.0, and every
\* stored value is 0 or has magnitude in [0.1, 1.0].
C8_AxisNormalized ==
    \A k \in 1..Len(current_data_.axes) :
        LET v == current_data_.axes[k]
            raw == axis_raw[k]
        IN  /\ v.s = 0 \/ (AtMostOne(v) /\ AtLeastTenth(v))
            /\ raw = 0 - 32768 => v = FNeg(FOne)
            /\ 10 * Abs(raw) < AxisDivisor => v = FZero

\* The axis event with raw -32768 has been applied and stored -1.0.
C8_Witness ==
    /\ axis_raw = <<0 - 32768>>
    /\ current_data_.axes = <<FNeg(FOne)>>

\* The elements of v other than element index are those of w.
SameExcept(v, w, index) ==
    /\ Len(v) = Len(w)
    /\ \A k \in 1..Len(v) : k # index + 1 => v[k] = w[k]

\* A step of the event thread inside one drain of its queue that discards
\* an axis or button event or changes the store.
EventStep ==
    /\ event_thread_ = "drain" /\ event_thread_' = "drain"
    /\ main_pc' = main_pc /\ kb_thread' = kb_thread /\ running_' = running_
    /\ (discarded' \in {"axis", "button"} \/ current_data_' # current_data_)

\* C9: an axis or button event with an index outside the stored sequence
\* changes neither the snapshot nor the handle nor the run state; one with
\* an index inside changes the indexed element only.
C9_OutOfRangeDropped ==
    [][EventStep =>
       /\ discarded' # "button" =>
          \A axis \in AxisIdx, raw \in RawSamples :
            handleAxisEvent(axis, raw) =>
               IF axis >= Len(current_data_.axes)
               THEN UNCHANGED <<current_data_, joystick_, sdl_open, running_,
                                program_running>>
               ELSE /\ SameExcept(current_data_'.axes, current_data_.axes, axis)
                    /\ current_data_'.buttons = current_data_.buttons
       /\ discarded' # "axis" =>
          \A button \in ButtonIdx, state \in {SDL_RELEASED, SDL_PRESSED} :
            handleButtonEvent(button, state) =>
               IF button >= Len(current_data_.buttons)
               THEN UNCHANGED <<current_data_, joystick_, sdl_open, running_,
                                program_running>>
               ELSE /\ SameExcept(current_data_'.buttons, current_data_.buttons,
                                  button)
                    /\ current_data_'.axes = current_data_.axes]_vars

\* The range test has just discarded an axis event of the open device, whose
\* snapshot holds a value that is not the default.
C9_Witness ==
    /\ discarded = "axis" /\ joystick_ # Null
    /\ \E k \in 1..Len(current_data_.axes) : current_data_.axes[k] # FZero

\* C10: once running_ has left true it stays false, and an 's' read while it
\* is false changes neither the run flags nor the handle nor the snapshot.
C10_PauseNotResumable ==
    [][/\ (event_thread_ # "off" /\ ~running_) => ~running_'
       /\ (keyboardListener("s") /\ ~running_) =>
             UNCHANGED <<running_, program_running, joystick_, sdl_open,
                         current_data_>>]_vars

\* An 's' has been read while the joystick was stopped by an earlier 's'.
C10_Witness ==
    /\ restart_refused /\ ~running_ /\ program_running
    /\ event_thread_ = "done"

\* The button indices at which the condition of the edge test holds whatever
\* a read past the end of the remembered buttons gives: pressed in the
\* snapshot, remembered, and remembered as not pressed.
DefiniteEdges ==
    {i \in 0..(Len(data.buttons) - 1) :
        /\ data.buttons[i + 1]
        /\ i < Len(PreviousButtons) /\ ~PreviousButtons[i + 1]}

\* The button indices at which the condition of the edge test can hold:
\* those of DefiniteEdges, and those pressed in the snapshot for which the
\* remembered buttons are read past their end.
PossibleEdges ==
    {i \in 0..(Len(data.buttons) - 1) :
        /\ data.buttons[i + 1]
        /\ i < Len(PreviousButtons) => ~PreviousButtons[i + 1]}

\* The command ids of the specification's table, by button index.
CommandTable == <<3, 1, 2, 4>>

\* C11: a pass of the consumer that completes sends, in index order, command
\* 3, 1, 2, 4 for a press edge detected at button index 0, 1, 2, 3, and
\* nothing for a press edge at an index from 4 on.
C11_CommandMapping ==
    [][(ConsumerTick /\ main_pc' = "loop") =>
         \E E \in SUBSET (PossibleEdges \cap (0..3)) :
            /\ (DefiniteEdges \cap (0..3)) \subseteq E
            /\ Len(emitted') = Cardinality(E)
            /\ \A i \in E :
                 emitted'[Cardinality({j \in E : j <= i})] = CommandTable[i + 1]]_vars

\* One pass has sent the four commands in index order; button 4 was pressed
\* in its snapshot too.
C11_Witness ==
    /\ main_pc = "loop" /\ emitted = <<3, 1, 2, 4>>
    /\ Len(last_button_state) = TableButtons
    /\ last_button_state[TableButtons]

\* The store has the axis and button counts of device dev.
HasCounts(d, dev) ==
    /\ Len(d.axes) = dev.axes
    /\ Len(d.buttons) = dev.buttons

\* The event thread is between opening a device and the return of the
\* initJoystick that follows.
Opening == event_thread_ \in {"opened", "init"}

\* C12 as stated: in every state in which a device is open the stored axes
\* and buttons have the device's axis and button counts, and no step that
\* keeps the device open changes these lengths.
C12_LengthsFixedOnceOpen ==
    /\ [](joystick_ # Null => HasCounts(current_data_, joystick_))
    /\ [][(joystick_ # Null /\ joystick_' = joystick_)
             => /\ Len(current_data_'.axes) = Len(current_data_.axes)
                /\ Len(current_data_'.buttons) = Len(current_data_.buttons)]_vars

\* C12: whenever a device is open and its initJoystick has returned, the
\* stored axes and buttons have the device's axis and button counts, and no
\* step that keeps the device open changes these lengths.
C12_LengthsFixed ==
    /\ []((joystick_ # Null /\ ~Opening)
             => HasCounts(current_data_, joystick_))
    /\ [][(joystick_ # Null /\ joystick_' = joystick_ /\ ~Opening)
             => /\ Len(current_data_'.axes) = Len(current_data_.axes)
                /\ Len(current_data_'.buttons) = Len(current_data_.buttons)]_vars

\* DevB is open with its counts and a button event applied, after the
\* consumer has remembered the buttons of DevA.
C12_Witness ==
    /\ joystick_ = DevB /\ event_thread_ = "drain"
    /\ HasCounts(current_data_, DevB)
    /\ current_data_.buttons[1]
    /\ Len(last_button_state) = DevA.buttons

\* C13: SDL never has more than one device handle open, and a device-added
\* event processed while a device is open changes neither the handle nor the
\* set of open handles nor the store.
C13_OneHandle ==
    /\ [](Cardinality(sdl_open) <= 1)
    /\ [][(event_thread_ = "drain" /\ joystick_ # Null) =>
            \A dev \in Devices, ok \in BOOLEAN :
               deviceAdded(dev, ok) =>
                  UNCHANGED <<joystick_, sdl_open, current_data_>>]_vars

\* A device-added event has just been passed over because a device is open.
C13_Witness ==
    /\ discarded = "attach"
    /\ joystick_ # Null /\ sdl_open = {joystick_.id}

\* C14: when the event thread has left its loop and the program is still
\* running, no device handle is open.
C14_HandleClosedAtExit ==
    (event_thread_ = "done" /\ program_running /\ exit_code = "none")
        => sdl_open = {}

\* C15: the lock is free exactly when no write of the store is under way,
\* and every getData() is made with the lock free and returns the store as
\* the last completed write left it.
C15_ReadSeesLastWrite ==
    /\ [](data_mutex_ = "free" <=> event_thread_ # "init")
    /\ [][ConsumerRead => (data_mutex_ = "free" /\ data' = current_data_)]_vars

\* The consumer holds a snapshot with a written axis value and a pressed
\* button.
C15_Witness ==
    /\ main_pc = "edges"
    /\ \E k \in 1..Len(data.axes) : data.axes[k] = FNeg(FOne)
    /\ \E k \in 1..Len(data.buttons) : data.buttons[k]

\* C16: a pass of the consumer that finds isRunning() false reads no
\* snapshot, renders nothing and sends no command.
C16_PausedTickIdle ==
    [][(main_pc = "tick" /\ ~running_ /\ main_pc' # "tick") =>
         /\ main_pc' = "loop"
         /\ emitted' = <<>>
         /\ data' = JoystickData
         /\ UNCHANGED <<data_size, exit_code>>]_vars

\* A pass has idled although the store holds a press the consumer has not
\* seen.
C16_Witness ==
    /\ last_tick = "idle" /\ main_pc = "loop" /\ program_running
    /\ last_init /\ last_button_state # <<>> /\ current_data_.buttons # <<>>
    /\ current_data_.buttons[1] /\ ~last_button_state[1]

\* C17 as stated: every pass of the consumer, with isRunning() true or
\* false, leaves the remembered buttons equal to the stored buttons.
C17_PreviousUpdatedEveryTick ==
    [][/\ (main_pc = "edges" /\ main_pc' = "loop")
            => last_button_state' = data.buttons
       /\ (main_pc = "tick" /\ main_pc' = "loop")
            => last_button_state' = current_data_.buttons]_vars

\* C17: a pass of the consumer with isRunning() true that completes leaves
\* the remembered buttons equal to the snapshot's buttons; a pass with
\* isRunning() false leaves the remembered buttons as they were.
C17_PreviousUpdatedWhenRunning ==
    [][/\ (main_pc = "edges" /\ main_pc' = "loop")
            => last_button_state' = data.buttons
       /\ (main_pc = "tick" /\ main_pc' = "loop")
            => UNCHANGED <<last_button_state, last_init>>]_vars

\* A pass has idled with button 0 remembered as pressed and stored as
\* released.
C17_Witness ==
    /\ last_tick = "idle" /\ last_init
    /\ last_button_state # <<>> /\ current_data_.buttons # <<>>
    /\ last_button_state[1] /\ ~current_data_.buttons[1]

\* C18: while the event thread runs with no device open, a failed open and
\* a detach leave it running with no device, a successful open attaches the
\* device, and the initJoystick that follows leaves the store with the
\* device's counts and the thread draining its queue again.
C18_AbsenceRecoverable ==
    [][/\ (event_thread_ = "drain" /\ joystick_ = Null) =>
            /\ \A dev \in Devices, ok \in BOOLEAN :
                  deviceAdded(dev, ok) =>
                     /\ running_' = running_
                     /\ IF ok
                        THEN joystick_' = dev /\ event_thread_' = "opened"
                        ELSE joystick_' = Null /\ event_thread_' = "drain"
            /\ \A which \in InstanceIds :
                  deviceRemoved(which) =>
                     /\ running_' = running_
                     /\ joystick_' = Null /\ event_thread_' = "drain"
       /\ (event_thread_ = "opened" /\ event_thread_' # "opened") =>
            /\ event_thread_' = "init"
            /\ joystick_' = joystick_
       /\ (event_thread_ = "init" /\ event_thread_' # "init") =>
            /\ event_thread_' = "drain"
            /\ joystick_' = joystick_
            /\ HasCounts(current_data_', joystick_)
       /\ (event_thread_ = "check" /\ running_ /\ event_thread_' # "check")
            => event_thread_' = "drain"]_vars

\* DevA is open with its counts after the consumer read a snapshot of DevB.
C18_Witness ==
    /\ joystick_ = DevA /\ event_thread_ = "drain" /\ running_
    /\ HasCounts(current_data_, DevA)
    /\ data_size = [axes |-> DevB.axes, buttons |-> DevB.buttons]

\* C19: in no pass of the consumer is a button pressed in the snapshot at
\* an index that the remembered buttons do not have.
C19_PreviousInBounds ==
    [][ConsumerTick =>
         \A i \in 0..(Len(data.buttons) - 1) :
            data.buttons[i + 1] => i < Len(PreviousButtons)]_vars

\* C20: the first pass of the consumer with isRunning() true sends no
\* command and remembers the buttons of its snapshot; a button remembered as
\* pressed sends no command in the next pass.
C20_FirstTickSilent ==
    [][/\ (ConsumerTick /\ ~last_init) =>
            /\ emitted' = <<>>
            /\ main_pc' = "loop"
            /\ last_init'
            /\ last_button_state' = data.buttons
       /\ (ConsumerTick /\ last_init) =>
            \A i \in 0..3 :
               (i < Len(last_button_state) /\ last_button_state[i + 1])
                  => commandId(i) \notin Sent(emitted')]_vars

\* The first pass has just run on a snapshot with button 0 pressed and has
\* sent nothing.
C20_Witness ==
    /\ last_tick = "first" /\ main_pc = "loop"
    /\ last_button_state # <<>> /\ last_button_state[1]
    /\ emitted = <<>>

====
